---- MODULE Spec2Model ----
(***************************************************************************)
(* A model of backend/main.py: the /process request handler               *)
(* (process_video) and the silence inversion (get_non_silent_chunks).     *)
(* Times are integer milliseconds, as pydub reports them; the keep        *)
(* intervals are in seconds, as ms / 1000.0 produces them.                *)
(***************************************************************************)
EXTENDS Integers, Sequences, FiniteSets, TLC

VARIABLES
    pc,                 \* position of the handler
    files,              \* whether request.files holds 'video'
    form,               \* request.form's threshold field
    threshold_percent,
    silence_thresh_db,
    min_silence_len_ms,
    disk,               \* temporary files of the request that exist on disk
    created,            \* temporary files the request created
    output_path,
    has_audio,          \* video_clip.audio is not None
    audio,              \* the decoded AudioSegment
    detect_args,        \* the arguments detect_silence was called with
    silence_chunks,
    idx,                \* position of the inversion loop in silence_chunks
    last_end_ms,
    non_silent_chunks,
    calls,              \* the collaborator calls made so far
    exc,                \* the call that raised, or None
    log,                \* logging.error records
    response

vars == <<pc, files, form, threshold_percent, silence_thresh_db,
          min_silence_len_ms, disk, created, output_path, has_audio, audio,
          detect_args, silence_chunks, idx, last_end_ms, non_silent_chunks,
          calls, exc, log, response>>

None == "None"

\* no response yet, and detect_silence not called yet
NoResponse == [status |-> 0, body |-> None]
NoArgs == [silence_thresh |-> None, min_silence_len |-> None]

-----------------------------------------------------------------------------
(* Bounds of the model                                                     *)

\* segments of a decoded amplitude timeline
MaxSegs == 3
\* silence intervals of a directly supplied silence list
MaxSil == 2
\* grid points of a directly supplied duration
MaxTicks == 5
\* milliseconds between two grid points
Step == 250

-----------------------------------------------------------------------------
(* Program constants                                                       *)

BaseDb == -70
DefaultThreshold == 30
MinSilenceLenMs == 500
MsPerSec == 1000

-----------------------------------------------------------------------------
(* Inputs                                                                  *)

\* request.form: the threshold field is absent, or a string of characters.
Forms ==
    { [has |-> FALSE, val |-> <<>>] } \cup
    { [has |-> TRUE, val |-> v] :
        v \in { <<"0">>, <<"1", "0">>, <<"3", "0">>, <<"5", "0">>,
                <<"6", "0">>, <<"a">> } }

\* amplitude levels of a timeline segment (dBFS) and segment durations (ms)
Levels == { -60, -40, -20 }
SegDurs == { 200, 500 }
Segments == [ms : SegDurs, db : Levels]
Timelines == UNION { [1..n -> Segments] : n \in 0..MaxSegs }

-----------------------------------------------------------------------------
(* Pure helpers                                                            *)

DigitChars == { "0", "1", "2", "3", "4", "5", "6", "7", "8", "9" }

DigitVal(c) ==
    CASE c = "0" -> 0 [] c = "1" -> 1 [] c = "2" -> 2 [] c = "3" -> 3
      [] c = "4" -> 4 [] c = "5" -> 5 [] c = "6" -> 6 [] c = "7" -> 7
      [] c = "8" -> 8 [] c = "9" -> 9

\* float(s) accepts s: here, a non-empty string of decimal digits.
IsNumeric(s) == Len(s) > 0 /\ \A i \in 1..Len(s) : s[i] \in DigitChars

RECURSIVE DecimalValue(_)
DecimalValue(s) ==
    IF s = <<>> THEN 0
    ELSE 10 * DecimalValue(SubSeq(s, 1, Len(s) - 1)) + DigitVal(s[Len(s)])

\* float(request.form.get('threshold', 30)), where the conversion succeeds
ThresholdPercent(f) ==
    IF f.has THEN DecimalValue(f.val) ELSE DefaultThreshold

\* float() raises ValueError
ThresholdRaises(f) == f.has /\ ~IsNumeric(f.val)

ThresholdToDb_inverted(p) == BaseDb + (60 - p)
ThresholdToDb_offset(p) == BaseDb + 10 + p
ThresholdToDb(p) == BaseDb + p

\* ms / 1000.0: whole seconds and thousandths of a second
ToSec(ms) == [s |-> ms \div MsPerSec, frac |-> ms % MsPerSec]

RECURSIVE TimelineLen(_)
\* len(audio), in milliseconds
TimelineLen(tl) ==
    IF tl = <<>> THEN 0 ELSE tl[1].ms + TimelineLen(Tail(tl))

\* the span open at position pos, closed there: reported when long enough
CloseSpan(open, pos, min_len) ==
    IF open >= 0 /\ pos - open >= min_len THEN << <<open, pos>> >> ELSE <<>>

RECURSIVE Scan(_, _, _, _, _, _)
Scan(tl, i, pos, open, thresh, min_len) ==
    IF i > Len(tl) THEN CloseSpan(open, pos, min_len)
    ELSE IF tl[i].db <= thresh
         THEN Scan(tl, i + 1, pos + tl[i].ms,
                   IF open >= 0 THEN open ELSE pos, thresh, min_len)
         ELSE CloseSpan(open, pos, min_len)
              \o Scan(tl, i + 1, pos + tl[i].ms, -1, thresh, min_len)

\* detect_silence: the maximal contiguous spans at or below thresh that last
\* at least min_len, in milliseconds, left to right
Detect(tl, thresh, min_len) == Scan(tl, 1, 0, -1, thresh, min_len)

\* line 38: a keep interval lies before the silence interval
EmitsGap_orEqual(start_ms, last) == start_ms >= last
EmitsGap(start_ms, last) == start_ms > last

\* line 42: a keep interval lies after the last silence interval
EmitsTail_flipped(last, n) == last > n
EmitsTail(last, n) == last < n

\* line 82: "if not non_silent_timestamps"
KeepIsEmpty_never(keep) == FALSE
KeepIsEmpty(keep) == keep = <<>>

\* line 104: the body of the response to a failed processing step
ErrorBody_leaks(e) == e
ErrorBody(e) == "An internal error occurred during video processing."

GenericFailure ==
    [status |-> 500, body |-> "An internal error occurred during video processing."]

\* what the framework answers when the handler raises
Unhandled == [status |-> 500, body |-> "Internal Server Error"]

-----------------------------------------------------------------------------
(* The request handler                                                     *)

Init ==
    /\ pc = "start"
    /\ files = FALSE
    /\ form = [has |-> FALSE, val |-> <<>>]
    /\ threshold_percent = None
    /\ silence_thresh_db = None
    /\ min_silence_len_ms = None
    /\ disk = {}
    /\ created = {}
    /\ output_path = None
    /\ has_audio = FALSE
    /\ audio = <<>>
    /\ detect_args = NoArgs
    /\ silence_chunks = <<>>
    /\ idx = 0
    /\ last_end_ms = 0
    /\ non_silent_chunks = <<>>
    /\ calls = {}
    /\ exc = None
    /\ log = <<>>
    /\ response = NoResponse

\* an exception inside the try block: control passes to the except clause
Raise(call) ==
    /\ exc' = call
    /\ pc' = "except"

\* an exception outside the try block: it leaves the handler
RaiseOut(call) ==
    /\ exc' = call
    /\ response' = Unhandled
    /\ pc' = "done"

\* lines 49-53: a request arrives
Receive ==
    /\ pc = "start"
    /\ \E hv \in BOOLEAN, f \in Forms :
         /\ files' = hv
         /\ form' = f
         /\ IF hv
            THEN /\ pc' = "map_threshold"
                 /\ UNCHANGED response
            ELSE /\ response' = [status |-> 400, body |-> "No video file provided"]
                 /\ pc' = "done"
    /\ UNCHANGED <<threshold_percent, silence_thresh_db, min_silence_len_ms,
                   disk, created, output_path, has_audio, audio, detect_args,
                   silence_chunks, idx, last_end_ms, non_silent_chunks, calls,
                   exc, log>>

\* lines 58-60
MapThreshold ==
    /\ pc = "map_threshold"
    /\ IF ThresholdRaises(form)
       THEN /\ RaiseOut("float")
            /\ UNCHANGED <<threshold_percent, silence_thresh_db,
                           min_silence_len_ms>>
       ELSE /\ threshold_percent' = ThresholdPercent(form)
            /\ silence_thresh_db' = ThresholdToDb(ThresholdPercent(form))
            /\ min_silence_len_ms' = MinSilenceLenMs
            /\ pc' = "save_upload"
            /\ UNCHANGED <<exc, response>>
    /\ UNCHANGED <<files, form, disk, created, output_path, has_audio, audio,
                   detect_args, silence_chunks, idx, last_end_ms,
                   non_silent_chunks, calls, log>>

\* lines 62-64: the temporary video file is created, the upload saved to it
SaveUpload ==
    /\ pc = "save_upload"
    /\ disk' = disk \cup {"video"}
    /\ created' = created \cup {"video"}
    /\ calls' = calls \cup {"save"}
    /\ \E ok \in BOOLEAN :
         IF ok
         THEN /\ pc' = "temp_audio"
              /\ UNCHANGED <<exc, response>>
         ELSE RaiseOut("save")
    /\ UNCHANGED <<files, form, threshold_percent, silence_thresh_db,
                   min_silence_len_ms, output_path, has_audio, audio,
                   detect_args, silence_chunks, idx, last_end_ms,
                   non_silent_chunks, log>>

\* lines 66-69
TempAudio ==
    /\ pc = "temp_audio"
    /\ disk' = disk \cup {"audio"}
    /\ created' = created \cup {"audio"}
    /\ output_path' = None
    /\ pc' = "open_video"
    /\ UNCHANGED <<files, form, threshold_percent, silence_thresh_db,
                   min_silence_len_ms, has_audio, audio, detect_args,
                   silence_chunks, idx, last_end_ms, non_silent_chunks, calls,
                   exc, log, response>>

\* lines 72-73: VideoFileClip(video_path)
OpenVideo ==
    /\ pc = "open_video"
    /\ calls' = calls \cup {"VideoFileClip"}
    /\ \E ok \in BOOLEAN, ha \in BOOLEAN :
         IF ok
         THEN /\ has_audio' = ha
              /\ pc' = "check_audio"
              /\ UNCHANGED exc
         ELSE /\ Raise("VideoFileClip")
              /\ UNCHANGED has_audio
    /\ UNCHANGED <<files, form, threshold_percent, silence_thresh_db,
                   min_silence_len_ms, disk, created, output_path, audio,
                   detect_args, silence_chunks, idx, last_end_ms,
                   non_silent_chunks, log, response>>

\* lines 75-76
CheckAudio ==
    /\ pc = "check_audio"
    /\ IF has_audio
       THEN /\ pc' = "write_audio"
            /\ UNCHANGED response
       ELSE /\ response' = [status |-> 400,
                            body |-> "Video file does not contain an audio track."]
            /\ pc' = "finally"
    /\ UNCHANGED <<files, form, threshold_percent, silence_thresh_db,
                   min_silence_len_ms, disk, created, output_path, has_audio,
                   audio, detect_args, silence_chunks, idx, last_end_ms,
                   non_silent_chunks, calls, exc, log>>

\* line 78: video_clip.audio.write_audiofile(audio_path)
WriteAudio ==
    /\ pc = "write_audio"
    /\ calls' = calls \cup {"write_audiofile"}
    /\ \E ok \in BOOLEAN :
         IF ok
         THEN /\ pc' = "load_audio"
              /\ UNCHANGED exc
         ELSE Raise("write_audiofile")
    /\ UNCHANGED <<files, form, threshold_percent, silence_thresh_db,
                   min_silence_len_ms, disk, created, output_path, has_audio,
                   audio, detect_args, silence_chunks, idx, last_end_ms,
                   non_silent_chunks, log, response>>

\* lines 80, 21: AudioSegment.from_file(audio_path)
LoadAudio ==
    /\ pc = "load_audio"
    /\ calls' = calls \cup {"from_file"}
    /\ \E ok \in BOOLEAN :
         IF ok
         THEN /\ \E tl \in Timelines : audio' = tl
              /\ pc' = "detect"
              /\ UNCHANGED exc
         ELSE /\ Raise("from_file")
              /\ UNCHANGED audio
    /\ UNCHANGED <<files, form, threshold_percent, silence_thresh_db,
                   min_silence_len_ms, disk, created, output_path, has_audio,
                   detect_args, silence_chunks, idx, last_end_ms,
                   non_silent_chunks, log, response>>

\* lines 22-28: detect_silence(audio, min_silence_len, silence_thresh)
DetectSilence ==
    /\ pc = "detect"
    /\ calls' = calls \cup {"detect_silence"}
    /\ detect_args' = [silence_thresh |-> silence_thresh_db,
                       min_silence_len |-> min_silence_len_ms]
    /\ \E ok \in BOOLEAN :
         IF ok
         THEN /\ silence_chunks' =
                    Detect(audio, silence_thresh_db, min_silence_len_ms)
              /\ pc' = "check_silence"
              /\ UNCHANGED exc
         ELSE /\ Raise("detect_silence")
              /\ UNCHANGED silence_chunks
    /\ UNCHANGED <<files, form, threshold_percent, silence_thresh_db,
                   min_silence_len_ms, disk, created, output_path, has_audio,
                   audio, idx, last_end_ms, non_silent_chunks, log, response>>

\* lines 30-36: no silence, or the start of the inversion
CheckSilence ==
    /\ pc = "check_silence"
    /\ IF silence_chunks = <<>>
       THEN /\ non_silent_chunks' =
                  << <<ToSec(0), ToSec(TimelineLen(audio))>> >>
            /\ pc' = "check_empty"
            /\ UNCHANGED <<idx, last_end_ms>>
       ELSE /\ non_silent_chunks' = <<>>
            /\ last_end_ms' = 0
            /\ idx' = 1
            /\ pc' = "invert"
    /\ UNCHANGED <<files, form, threshold_percent, silence_thresh_db,
                   min_silence_len_ms, disk, created, output_path, has_audio,
                   audio, detect_args, silence_chunks, calls, exc, log,
                   response>>

\* lines 37-40: one iteration of the inversion loop
InvertStep ==
    /\ pc = "invert"
    /\ idx <= Len(silence_chunks)
    /\ LET start_ms == silence_chunks[idx][1]
           end_ms == silence_chunks[idx][2]
       IN  /\ non_silent_chunks' =
                 IF EmitsGap(start_ms, last_end_ms)
                 THEN Append(non_silent_chunks,
                             <<ToSec(last_end_ms), ToSec(start_ms)>>)
                 ELSE non_silent_chunks
           /\ last_end_ms' = end_ms
    /\ idx' = idx + 1
    /\ UNCHANGED <<pc, files, form, threshold_percent, silence_thresh_db,
                   min_silence_len_ms, disk, created, output_path, has_audio,
                   audio, detect_args, silence_chunks, calls, exc, log,
                   response>>

\* lines 42-46: the interval after the last silence, and the return
InvertTail ==
    /\ pc = "invert"
    /\ idx > Len(silence_chunks)
    /\ non_silent_chunks' =
          IF EmitsTail(last_end_ms, TimelineLen(audio))
          THEN Append(non_silent_chunks,
                      <<ToSec(last_end_ms), ToSec(TimelineLen(audio))>>)
          ELSE non_silent_chunks
    /\ pc' = "check_empty"
    /\ UNCHANGED <<files, form, threshold_percent, silence_thresh_db,
                   min_silence_len_ms, disk, created, output_path, has_audio,
                   audio, detect_args, silence_chunks, idx, last_end_ms, calls,
                   exc, log, response>>

\* lines 82-83
CheckEmpty ==
    /\ pc = "check_empty"
    /\ IF KeepIsEmpty(non_silent_chunks)
       THEN /\ response' = [status |-> 400,
                            body |-> "No audio detected in the video"]
            /\ pc' = "finally"
       ELSE /\ pc' = "subclips"
            /\ UNCHANGED response
    /\ UNCHANGED <<files, form, threshold_percent, silence_thresh_db,
                   min_silence_len_ms, disk, created, output_path, has_audio,
                   audio, detect_args, silence_chunks, idx, last_end_ms,
                   non_silent_chunks, calls, exc, log>>

\* line 85: video_clip.subclip(start, end) for each keep interval
Subclips ==
    /\ pc = "subclips"
    /\ calls' = calls \cup {"subclip"}
    /\ \E ok \in BOOLEAN :
         IF ok
         THEN /\ pc' = "concatenate"
              /\ UNCHANGED exc
         ELSE Raise("subclip")
    /\ UNCHANGED <<files, form, threshold_percent, silence_thresh_db,
                   min_silence_len_ms, disk, created, output_path, has_audio,
                   audio, detect_args, silence_chunks, idx, last_end_ms,
                   non_silent_chunks, log, response>>

\* line 87: concatenate_videoclips(subclips)
Concatenate ==
    /\ pc = "concatenate"
    /\ calls' = calls \cup {"concatenate_videoclips"}
    /\ \E ok \in BOOLEAN :
         IF ok
         THEN /\ pc' = "write_video"
              /\ UNCHANGED exc
         ELSE Raise("concatenate_videoclips")
    /\ UNCHANGED <<files, form, threshold_percent, silence_thresh_db,
                   min_silence_len_ms, disk, created, output_path, has_audio,
                   audio, detect_args, silence_chunks, idx, last_end_ms,
                   non_silent_chunks, log, response>>

\* lines 89-91: the temporary output file, and final_clip.write_videofile
WriteVideo ==
    /\ pc = "write_video"
    /\ disk' = disk \cup {"output"}
    /\ created' = created \cup {"output"}
    /\ output_path' = "output"
    /\ calls' = calls \cup {"write_videofile"}
    /\ \E ok \in BOOLEAN :
         IF ok
         THEN /\ pc' = "send_file"
              /\ UNCHANGED exc
         ELSE Raise("write_videofile")
    /\ UNCHANGED <<files, form, threshold_percent, silence_thresh_db,
                   min_silence_len_ms, has_audio, audio, detect_args,
                   silence_chunks, idx, last_end_ms, non_silent_chunks, log,
                   response>>

\* lines 93-100: send_file(output_path)
SendFile ==
    /\ pc = "send_file"
    /\ calls' = calls \cup {"send_file"}
    /\ \E ok \in BOOLEAN :
         IF ok
         THEN /\ response' = [status |-> 200, body |-> output_path]
              /\ pc' = "finally"
              /\ UNCHANGED exc
         ELSE /\ Raise("send_file")
              /\ UNCHANGED response
    /\ UNCHANGED <<files, form, threshold_percent, silence_thresh_db,
                   min_silence_len_ms, disk, created, output_path, has_audio,
                   audio, detect_args, silence_chunks, idx, last_end_ms,
                   non_silent_chunks, log>>

\* lines 102-103: logging.error(..., exc_info=True)
ExceptLog ==
    /\ pc = "except"
    /\ log' = Append(log, [level |-> "error", exc |-> exc])
    /\ pc' = "except_return"
    /\ UNCHANGED <<files, form, threshold_percent, silence_thresh_db,
                   min_silence_len_ms, disk, created, output_path, has_audio,
                   audio, detect_args, silence_chunks, idx, last_end_ms,
                   non_silent_chunks, calls, exc, response>>

\* line 104
ExceptReturn ==
    /\ pc = "except_return"
    /\ response' = [status |-> 500, body |-> ErrorBody(exc)]
    /\ pc' = "finally"
    /\ UNCHANGED <<files, form, threshold_percent, silence_thresh_db,
                   min_silence_len_ms, disk, created, output_path, has_audio,
                   audio, detect_args, silence_chunks, idx, last_end_ms,
                   non_silent_chunks, calls, exc, log>>

\* lines 107-112: the files the finally clause removes
Removed(out) ==
    {"video", "audio"} \cup (IF out # None THEN {out} ELSE {})

\* lines 105-112
Finally ==
    /\ pc = "finally"
    /\ disk' = disk \ Removed(output_path)
    /\ pc' = "done"
    /\ UNCHANGED <<files, form, threshold_percent, silence_thresh_db,
                   min_silence_len_ms, created, output_path, has_audio, audio,
                   detect_args, silence_chunks, idx, last_end_ms,
                   non_silent_chunks, calls, exc, log, response>>

Next ==
    \/ Receive
    \/ MapThreshold
    \/ SaveUpload
    \/ TempAudio
    \/ OpenVideo
    \/ CheckAudio
    \/ WriteAudio
    \/ LoadAudio
    \/ DetectSilence
    \/ CheckSilence
    \/ InvertStep
    \/ InvertTail
    \/ CheckEmpty
    \/ Subclips
    \/ Concatenate
    \/ WriteVideo
    \/ SendFile
    \/ ExceptLog
    \/ ExceptReturn
    \/ Finally

Spec == Init /\ [][Next]_vars

-----------------------------------------------------------------------------
(* get_non_silent_chunks alone, on a duration and a silence list supplied  *)
(* directly: lines 30-46                                                   *)

GridPoints == { Step * i : i \in 0..(MaxTicks + 1) }
Durations == { Step * i : i \in 0..MaxTicks }

\* each interval has start < end, and each ends before the next starts
SortedDisjoint(sil) ==
    /\ \A i \in 1..Len(sil) : sil[i][1] < sil[i][2]
    /\ \A i \in 1..(Len(sil) - 1) : sil[i][2] <= sil[i + 1][1]

SilenceLists ==
    { sil \in UNION { [1..n -> GridPoints \X GridPoints] : n \in 0..MaxSil } :
        SortedDisjoint(sil) }

\* an AudioSegment of d milliseconds
AudioOfLen(d) == IF d = 0 THEN <<>> ELSE << [ms |-> d, db |-> 0] >>

SynthInit ==
    /\ pc = "check_silence"
    /\ files = TRUE
    /\ form = [has |-> FALSE, val |-> <<>>]
    /\ threshold_percent = DefaultThreshold
    /\ silence_thresh_db = ThresholdToDb(DefaultThreshold)
    /\ min_silence_len_ms = MinSilenceLenMs
    /\ disk = {}
    /\ created = {}
    /\ output_path = None
    /\ has_audio = TRUE
    /\ \E d \in Durations : audio = AudioOfLen(d)
    /\ detect_args = NoArgs
    /\ silence_chunks \in SilenceLists
    /\ idx = 0
    /\ last_end_ms = 0
    /\ non_silent_chunks = <<>>
    /\ calls = {}
    /\ exc = None
    /\ log = <<>>
    /\ response = NoResponse

SynthNext ==
    \/ CheckSilence
    \/ InvertStep
    \/ InvertTail

SpecSynth == SynthInit /\ [][SynthNext]_vars

-----------------------------------------------------------------------------
(* Vocabulary of the properties                                            *)

\* a keep interval's bound, back in milliseconds
SecToMs(x) == x.s * 1000 + x.frac

Duration == TimelineLen(audio)

\* the silence list lies inside [0, d]
Inside(sil, d) ==
    \A i \in 1..Len(sil) : 0 <= sil[i][1] /\ sil[i][2] <= d

\* how many keep intervals, and how many silence intervals, hold the
\* millisecond [t, t + 1)
KeepCount(t) ==
    Cardinality({ i \in 1..Len(non_silent_chunks) :
        /\ SecToMs(non_silent_chunks[i][1]) <= t
        /\ t < SecToMs(non_silent_chunks[i][2]) })

SilenceCount(t) ==
    Cardinality({ i \in 1..Len(silence_chunks) :
        silence_chunks[i][1] <= t /\ t < silence_chunks[i][2] })

RECURSIVE SilentMs(_)
SilentMs(sil) ==
    IF sil = <<>> THEN 0 ELSE (sil[1][2] - sil[1][1]) + SilentMs(Tail(sil))

\* the silence intervals cover the whole of a non-empty timeline
FullySilent ==
    /\ silence_chunks # <<>>
    /\ SortedDisjoint(silence_chunks)
    /\ Inside(silence_chunks, Duration)
    /\ SilentMs(silence_chunks) = Duration

Assembly == { "subclip", "concatenate_videoclips", "write_videofile" }

AssemblyReached ==
    \/ pc \in { "subclips", "concatenate", "write_video", "send_file" }
    \/ calls \cap Assembly # {}

NoAudioDetected == [status |-> 400, body |-> "No audio detected in the video"]

Upstream ==
    { "VideoFileClip", "write_audiofile", "from_file", "detect_silence",
      "subclip", "concatenate_videoclips", "write_videofile" }

Sensitivities == 10..50

-----------------------------------------------------------------------------
(* C1. Inversion completeness: when get_non_silent_chunks has returned for *)
(* a duration D > 0 and a silence list that is sorted, non-overlapping,    *)
(* with start < end and inside [0, D], every millisecond of [0, D) lies in *)
(* exactly one interval of the keep list and the silence list together.    *)
C1_InversionComplete ==
    ( /\ pc = "check_empty"
      /\ Duration > 0
      /\ SortedDisjoint(silence_chunks)
      /\ Inside(silence_chunks, Duration) )
    => \A t \in 0..(Duration - 1) : KeepCount(t) + SilenceCount(t) = 1

C1_Witness ==
    /\ pc = "check_empty"
    /\ Duration > 0
    /\ Inside(silence_chunks, Duration)
    /\ Len(silence_chunks) = 2
    /\ Len(non_silent_chunks) = 3

(* C2. Well-formed keep list: for a duration D > 0 and a sorted,           *)
(* non-overlapping silence list, in every state of the inversion (after    *)
(* every iteration and at the return) each keep interval has               *)
(* 0 <= start < end and each ends no later than the next one starts.       *)
C2_KeepWellFormed ==
    (Duration > 0 /\ SortedDisjoint(silence_chunks))
    => /\ \A i \in 1..Len(non_silent_chunks) :
            /\ 0 <= SecToMs(non_silent_chunks[i][1])
            /\ SecToMs(non_silent_chunks[i][1]) < SecToMs(non_silent_chunks[i][2])
       /\ \A i \in 1..(Len(non_silent_chunks) - 1) :
            SecToMs(non_silent_chunks[i][2]) <= SecToMs(non_silent_chunks[i + 1][1])

C2_Witness ==
    /\ pc = "invert"
    /\ Duration > 0
    /\ idx = 3
    /\ Len(non_silent_chunks) = 2

C4_EmptySurfaced ==
    /\ (FullySilent /\ (pc = "check_empty" \/ pc = "finally" \/ pc = "done"))
         => non_silent_chunks = <<>>
    /\ (FullySilent /\ pc = "done")
         => (response = NoAudioDetected /\ calls \cap Assembly = {})
    /\ AssemblyReached => non_silent_chunks # <<>>

C4_Witness ==
    /\ pc = "done"
    /\ FullySilent
    /\ response = NoAudioDetected

(* C5. Sensitivity range validation: silence detection is never called    *)
(* with a threshold outside [-60, -20] dB.                                 *)
C5_ThresholdInRange ==
    "detect_silence" \in calls
    => (detect_args.silence_thresh >= -60 /\ detect_args.silence_thresh <= -20)

(* C6. Temporary resources are released on every exit path: once the       *)
(* request has finished, none of the temporary files it created is on disk.*)
C6_TempFilesReleased ==
    pc = "done" => created \cap disk = {}

(* C7. Zero-duration timeline is rejected: with an audio timeline of       *)
(* duration 0, get_non_silent_chunks returns no keep interval and the      *)
(* handler does not proceed to clip extraction.                            *)
C7_ZeroDurationRejected ==
    ("detect_silence" \in calls /\ Duration = 0)
    => (non_silent_chunks = <<>> /\ ~AssemblyReached)

(* C8. Threshold mapping: the threshold passed to silence detection is     *)
(* -70 + sensitivity for every sensitivity in 10..50 (30 -> -40,           *)
(* 10 -> -60, 50 -> -20, and -40 without a threshold field), and the       *)
(* minimum silence length passed is 500 ms.                                *)
C8_ThresholdMapping ==
    "detect_silence" \in calls
    => /\ detect_args.min_silence_len = 500
       /\ ~form.has => detect_args.silence_thresh = -40
       /\ (form.has /\ form.val = <<"3", "0">>) => detect_args.silence_thresh = -40
       /\ (form.has /\ form.val = <<"1", "0">>) => detect_args.silence_thresh = -60
       /\ (form.has /\ form.val = <<"5", "0">>) => detect_args.silence_thresh = -20
       /\ threshold_percent \in Sensitivities
            => detect_args.silence_thresh = threshold_percent - 70

C8_Witness ==
    /\ "detect_silence" \in calls
    /\ form.has
    /\ form.val = <<"1", "0">>
    /\ detect_args.silence_thresh = -60

\* the silence list of the request's audio at sensitivity s
SilenceAt(s) == Detect(audio, ThresholdToDb(s), min_silence_len_ms)

Detected ==
    /\ "detect_silence" \in calls
    /\ exc # "detect_silence"
    /\ threshold_percent \in Sensitivities

(* C9 as stated. Silence-count monotonicity: on the same timeline, a       *)
(* higher sensitivity never yields fewer silence intervals.                *)
C9_CountMonotone ==
    Detected
    => \A s \in Sensitivities :
         s >= threshold_percent => Len(SilenceAt(s)) >= Len(silence_chunks)

(* C9 as amended. Silence-coverage monotonicity: on the same timeline,     *)
(* every silence interval reported at one sensitivity lies inside a        *)
(* silence interval reported at any higher sensitivity.                    *)
C9_CoverageMonotone ==
    Detected
    => \A s \in { x \in Sensitivities : x >= threshold_percent } :
         LET higher == SilenceAt(s)
         IN  \A i \in 1..Len(silence_chunks) :
               \E j \in 1..Len(higher) :
                  /\ higher[j][1] <= silence_chunks[i][1]
                  /\ silence_chunks[i][2] <= higher[j][2]

C9_Witness ==
    /\ Detected
    /\ Len(silence_chunks) = 2
    /\ \E s \in Sensitivities :
         s > threshold_percent /\ Len(SilenceAt(s)) = 1

(* C10. Generic upstream failure: when an external decode or encode step   *)
(* has failed, the response is the fixed generic 500 response, the failure *)
(* is in the error log before the response exists, and no file is sent.    *)
C10_GenericFailure ==
    exc \in Upstream
    => /\ pc = "done" => response = GenericFailure
       /\ response # NoResponse
            => /\ response = GenericFailure
               /\ \E i \in 1..Len(log) : log[i] = [level |-> "error", exc |-> exc]
       /\ "send_file" \notin calls

C10_Witness ==
    /\ pc = "done"
    /\ exc = "write_videofile"
    /\ response = GenericFailure
    /\ disk = {}

====
